---- MODULE Spec2Model ----
(***************************************************************************)
(* Source tracking (landlab/components/landslides/SourceTrackingAlgorithm) *)
(* as a state machine: the Arc flow-direction decoder, track_source run    *)
(* one loop iteration at a time, and the aggregation of the upstream HSD   *)
(* lists into unique ids and fractions.                                    *)
(*                                                                         *)
(* Node ids are integers.  In the grids given to track_source the core     *)
(* nodes are 1..n and node 0 is the one non-core (boundary) node, so       *)
(* number_of_nodes = n + 1.  HSD ids are integers; the worked scenario's   *)
(* 'A','B','C','D' are written 1,2,3,4.                                    *)
(***************************************************************************)
EXTENDS Integers, Sequences, FiniteSets, TLC

\* ------------------------------------------------------------- bounds
\* number of core nodes of the enumerated grids
NumCore == 3
\* HSD ids of the enumerated assignments are 1..NumHsd
NumHsd == 2
\* elevations of the enumerated grids are 1..MaxElev
MaxElev == 2
\* node updates one segment walk may make before the model stops following it
MaxWalk == 6
\* the decoder's raster grids have 3 rows and 3..MaxCols columns
MaxCols == 4
\* flow-direction codes tried: 1..MaxCode and every 2^k, k in 0..8
MaxCode == 6
\* lists given directly to the aggregation have at most MaxLen entries
MaxLen == 2

\* grid, r, hsd_ids: the arguments of the running track_source call
\* frame:             its local variables and position
\* decoded:           the last convert_arc_flow_directions_to_landlab_node_ids
\*                    call, arguments and outcome
\* aggregate:         the last find_unique_upstream_hsd_ids_and_fractions
\*                    call, argument and outcome
VARIABLES grid, r, hsd_ids, frame, decoded, aggregate

vars == <<grid, r, hsd_ids, frame, decoded, aggregate>>

\* ------------------------------------------------------------- helpers
Nodes(g) == 0..(g.number_of_nodes - 1)

Range(s) == {s[k] : k \in DOMAIN s}

\* dict.update({k: v})
Put(d, k, v) == [x \in DOMAIN d \cup {k} |-> IF x = k THEN v ELSE d[x]]

NoDict == [x \in {} |-> <<>>]

\* ------------------------------------------------------------- inputs
\* A grid with core nodes 1..n, boundary node 0 and elevations zc on the core.
MakeGrid(n, zc) ==
  [number_of_nodes |-> n + 1,
   core_nodes |-> 1..n,
   z |-> [x \in 0..n |-> IF x = 0 THEN 0 ELSE zc[x]]]

NoGrid == [number_of_nodes |-> 0, core_nodes |-> {}, z |-> <<>>]

\* The spec's worked scenario: elevations 10,9,5,1, r = {1:3, 2:3, 3:4, 4:4},
\* HSD ids A,B,C,D.
ScenarioGrid == MakeGrid(4, <<10, 9, 5, 1>>)
ScenarioR == [x \in 0..4 |-> IF x = 0 THEN 0 ELSE <<3, 3, 4, 4>>[x]]
ScenarioHsd == [x \in 0..4 |-> x]

Scenario == [grid |-> ScenarioGrid, r |-> ScenarioR, hsd_ids |-> ScenarioHsd]

\* Every receiver map, HSD assignment and elevation field on NumCore core
\* nodes; a receiver is any core node, the node itself, or the boundary node.
Enumerated ==
  {[grid |-> MakeGrid(NumCore, zc),
    r |-> [x \in 0..NumCore |-> IF x = 0 THEN 0 ELSE rc[x]],
    hsd_ids |-> [x \in 0..NumCore |-> IF x = 0 THEN 1 ELSE hc[x]]] :
     zc \in [1..NumCore -> 1..MaxElev],
     rc \in [1..NumCore -> 0..NumCore],
     hc \in [1..NumCore -> 1..NumHsd]}

Inputs == Enumerated \cup {Scenario}

\* ------------------------------------------------------------- the raster grid
\* RasterModelGrid(nr, nc): nodes 0..nr*nc-1 numbered row by row from the
\* bottom left; the core nodes are the interior ones; neighbors_at_node is
\* (E, N, W, S) and diagonals_at_node is (NE, NW, SW, SE), -1 where the grid
\* has no such node.
RasterModelGrid(nr, nc) ==
  LET row(n) == n \div nc
      col(n) == n % nc
      at(n, dr, dc) ==
        IF row(n) + dr \in 0..(nr - 1) /\ col(n) + dc \in 0..(nc - 1)
          THEN n + dr * nc + dc ELSE -1
  IN [number_of_nodes |-> nr * nc,
      core_nodes |-> {n \in 0..(nr * nc - 1) :
                        row(n) \in 1..(nr - 2) /\ col(n) \in 1..(nc - 2)},
      neighbors_at_node |->
        [n \in 0..(nr * nc - 1) |->
           <<at(n, 0, 1), at(n, 1, 0), at(n, 0, -1), at(n, -1, 0)>>],
      diagonals_at_node |->
        [n \in 0..(nr * nc - 1) |->
           <<at(n, 1, 1), at(n, 1, -1), at(n, -1, -1), at(n, -1, 1)>>]]

Rasters == {RasterModelGrid(3, nc) : nc \in 3..MaxCols}

FlowCodes == {2 ^ k : k \in 0..8} \cup 1..MaxCode

NotDecoded == [status |-> "none", grid |-> NoGrid, flow_dir_arc |-> <<>>, r |-> <<>>]

\* ------------------------------------------------------------- the decoder
\* np.log2(c).astype('int') for a code c >= 1: the logarithm (exact for a
\* power of two), truncated towards zero
RECURSIVE Log2Int(_)
Log2Int(c) == IF c < 2 THEN 0 ELSE 1 + Log2Int(c \div 2)

\* faulty variant of Fliplr: the row is left as stored
FliplrSkipped(row) == row

\* np.fliplr on one row
Fliplr(row) == [k \in 1..Len(row) |-> row[Len(row) + 1 - k]]

\* lines 29-36: the row of `neighbors` for node n
NeighborsRow(g, n) ==
  LET neigh_ == Fliplr(g.neighbors_at_node[n])
      diag_ == Fliplr(g.diagonals_at_node[n])
      \* np.hsplit(x, 4)[k]: column k, counted from 0; a_n[-1] is column 3
      a_n == [k \in 0..3 |-> neigh_[k + 1]]
      a_d == [k \in 0..3 |-> diag_[k + 1]]
  IN <<a_n[3], a_d[0], a_n[0], a_d[1], a_n[1], a_d[2], a_n[2], a_d[3]>>

\* np.choose raises ValueError for an index outside the choices
ChooseRaises(index, choices) == index \notin 0..(Len(choices) - 1)

\* lines 26-42
convert_arc_flow_directions_to_landlab_node_ids(g, flow_dir_arc) ==
  LET r_arc_raw == [n \in g.core_nodes |-> Log2Int(flow_dir_arc[n])] IN
  IF \E n \in g.core_nodes : ChooseRaises(r_arc_raw[n], NeighborsRow(g, n))
    THEN [status |-> "ValueError", grid |-> g, flow_dir_arc |-> flow_dir_arc,
          r |-> <<>>]
    ELSE [status |-> "ok", grid |-> g, flow_dir_arc |-> flow_dir_arc,
          r |-> [n \in 0..(g.number_of_nodes - 1) |->
                   IF n \in g.core_nodes
                     THEN NeighborsRow(g, n)[r_arc_raw[n] + 1] ELSE 0]]

\* ------------------------------------------------------------- the aggregation
\* faulty variant of Counter: an entry seen again is set to 1, not incremented
RECURSIVE CounterNoIncrement(_)
CounterNoIncrement(s) ==
  IF s = <<>> THEN [x \in {} |-> 0]
  ELSE Put(CounterNoIncrement(SubSeq(s, 1, Len(s) - 1)), s[Len(s)], 1)

\* lines 125-127: the Counter of one list
RECURSIVE Counter(_)
Counter(s) ==
  IF s = <<>> THEN [x \in {} |-> 0]
  ELSE LET cnt == Counter(SubSeq(s, 1, Len(s) - 1))
           num == s[Len(s)]
       IN Put(cnt, num, IF num \in DOMAIN cnt THEN cnt[num] + 1 ELSE 1)

\* cnt.keys(): the keys in the dictionary's iteration order.  The package is
\* Python 2 code, where that order is arbitrary (it follows the hash table);
\* only from Python 3.7 on is it the insertion order.  Any order can come
\* out; the two calls at lines 128 and 130 give the same one.
Keys(cnt) ==
  {ks \in [1..Cardinality(DOMAIN cnt) -> DOMAIN cnt] :
     \A p, q \in DOMAIN ks : p # q => ks[p] # ks[q]}

RECURSIVE Sum(_)
Sum(buf) == IF buf = <<>> THEN 0 ELSE buf[1] + Sum(Tail(buf))

\* lines 125-134 for one node: the fraction s/float(sum(buf)) is the pair
\* <<s, sum(buf)>>
NodeAggregate(upstr, ks) ==
  LET cnt == Counter(upstr)
      buf == [p \in DOMAIN ks |-> cnt[ks[p]]]
  IN [uniq_ids |-> ks, coeff |-> [p \in DOMAIN buf |-> <<buf[p], Sum(buf)>>]]

\* one key order for every node of hsd_upstr
RECURSIVE KeyOrders(_, _)
KeyOrders(hsd_upstr, nodes) ==
  IF nodes = {} THEN {NoDict}
  ELSE LET ke == CHOOSE x \in nodes : TRUE IN
       {Put(f, ke, ks) : f \in KeyOrders(hsd_upstr, nodes \ {ke}),
                         ks \in Keys(Counter(hsd_upstr[ke]))}

\* lines 120-135, when the Counters iterate in the orders ko
find_unique_upstream_hsd_ids_and_fractions(hsd_upstr, ko) ==
  [status |-> "ok",
   hsd_upstr |-> hsd_upstr,
   uniq_ids |-> [ke \in DOMAIN hsd_upstr |->
                   NodeAggregate(hsd_upstr[ke], ko[ke]).uniq_ids],
   coeff |-> [ke \in DOMAIN hsd_upstr |->
                NodeAggregate(hsd_upstr[ke], ko[ke]).coeff]]

NotAggregated ==
  [status |-> "none", hsd_upstr |-> NoDict, uniq_ids |-> NoDict, coeff |-> NoDict]

\* lists of at most n entries drawn from S
RECURSIVE ListsUpTo(_, _)
ListsUpTo(S, n) ==
  IF n = 0 THEN {<<>>}
  ELSE LET shorter == ListsUpTo(S, n - 1) IN
       shorter \cup {Append(l, x) : l \in shorter, x \in S}

\* hsd_upstr dictionaries given to the aggregation directly: nodes 1 and 2,
\* any lists, the empty one included
DirectUpstr == [1..2 -> ListsUpTo(1..NumHsd, MaxLen)]

\* ------------------------------------------------------------- track_source
\* sor_z = core_nodes[np.argsort(core_elev)[::-1]]: the core nodes in
\* descending order of elevation.  The sort is not stable, so any order of
\* equal-elevation nodes can come out.
SorZ(g) ==
  {s \in [1..Cardinality(g.core_nodes) -> g.core_nodes] :
     /\ \A p, q \in DOMAIN s : p # q => s[p] # s[q]
     /\ \A p, q \in DOMAIN s : p < q => g.z[s[p]] >= g.z[s[q]]}

Idle ==
  [pc |-> "idle", sor_z |-> <<>>, idx |-> 0, alr_counted |-> <<>>,
   flow_accum |-> <<>>, hsd_upstr |-> NoDict, stream_buffer |-> <<>>,
   j |-> 0, switch_i |-> FALSE, a |-> 0, steps |-> 0]

\* lines 51-60: the state on entry to the for loop
Begin(g, s) ==
  [Idle EXCEPT !.pc = "loop", !.sor_z = s, !.idx = 1,
               !.flow_accum = [x \in Nodes(g) |-> 0]]

\* faulty variant of Visited: Check 1 never skips a node
VisitedNever(f, i) == FALSE

\* line 65
Visited(f, i) == i \in Range(f.alr_counted)

\* faulty variant of IsSink: a sink is looked for as a receiver of -1
IsSinkMinusOne(rr, n) == rr[n] = -1

\* line 68 and line 109
IsSink(rr, n) == rr[n] = n

\* faulty variant of FirstVisit: every node the walk reaches counts as new
FirstVisitAlways(flow_accum, n) == TRUE

\* line 93
FirstVisit(flow_accum, n) == flow_accum[n] = 0

\* faulty variant of Accumulate: assignment instead of addition
AccumulateAssign(flow_accum, n, a) == [flow_accum EXCEPT ![n] = a]

\* line 98
Accumulate(flow_accum, n, a) == [flow_accum EXCEPT ![n] = @ + a]

\* faulty variant of Extend: an existing entry is replaced, not appended to
ExtendOverwrite(hsd_upstr, n, stream_buffer) == Put(hsd_upstr, n, stream_buffer)

\* lines 101-107
Extend(hsd_upstr, n, stream_buffer) ==
  IF n \in DOMAIN hsd_upstr
    THEN [hsd_upstr EXCEPT ![n] = @ \o stream_buffer]
    ELSE Put(hsd_upstr, n, stream_buffer)

\* lines 65-66: Check 1
Check1(f) == [f EXCEPT !.idx = @ + 1]

\* faulty variant of Check2: the sink itself is not counted
Check2NoCount(f, hsd) ==
  LET i == f.sor_z[f.idx] IN
  [f EXCEPT !.hsd_upstr = Put(@, i, <<hsd[i]>>),
            !.alr_counted = Append(@, i),
            !.idx = @ + 1]

\* lines 68-72: Check 2
Check2(f, hsd) ==
  LET i == f.sor_z[f.idx] IN
  [f EXCEPT !.hsd_upstr = Put(@, i, <<hsd[i]>>),
            !.flow_accum = [@ EXCEPT ![i] = @ + 1],
            !.alr_counted = Append(@, i),
            !.idx = @ + 1]

\* lines 78-81: Check 3, a new segment starts at i
Check3(f) ==
  [f EXCEPT !.pc = "walk", !.stream_buffer = <<>>, !.j = f.sor_z[f.idx],
            !.switch_i = TRUE, !.a = 0, !.steps = 0]

\* lines 84-114: one iteration of the while loop
WalkIter(f, g, rr, hsd) ==
  LET jn == IF f.switch_i THEN f.j ELSE rr[f.j] IN
  IF ~f.switch_i /\ jn \notin g.core_nodes
    THEN [f EXCEPT !.j = jn, !.pc = "loop", !.idx = @ + 1]
    ELSE
      LET first == FirstVisit(f.flow_accum, jn)
          a1 == IF first THEN f.a + 1 ELSE f.a
          alr1 == IF first THEN Append(f.alr_counted, jn) ELSE f.alr_counted
          buf1 == IF first THEN Append(f.stream_buffer, hsd[jn])
                           ELSE f.stream_buffer
          f1 == [f EXCEPT !.j = jn, !.a = a1, !.alr_counted = alr1,
                          !.stream_buffer = buf1,
                          !.flow_accum = Accumulate(@, jn, a1),
                          !.hsd_upstr = Extend(@, jn, buf1),
                          !.steps = @ + 1]
      IN IF IsSink(rr, jn)
           THEN [f1 EXCEPT !.pc = "loop", !.idx = @ + 1]
           ELSE [f1 EXCEPT !.switch_i = FALSE]

\* line 115
Return(f) == [f EXCEPT !.pc = "returned"]

\* the statement track_source executes next in frame f
Step(f, g, rr, hsd) ==
  CASE f.pc = "loop" /\ f.idx > Len(f.sor_z) -> Return(f)
    [] f.pc = "loop" /\ f.idx <= Len(f.sor_z) ->
         IF Visited(f, f.sor_z[f.idx]) THEN Check1(f)
         ELSE IF IsSink(rr, f.sor_z[f.idx]) THEN Check2(f, hsd)
         ELSE Check3(f)
    [] f.pc = "walk" -> WalkIter(f, g, rr, hsd)
    [] OTHER -> f

\* track_source run from frame f for at most fuel statements
RECURSIVE Run(_, _, _, _, _)
Run(f, g, rr, hsd, fuel) ==
  IF f.pc = "returned" \/ fuel = 0 THEN f
  ELSE Run(Step(f, g, rr, hsd), g, rr, hsd, fuel - 1)

\* track_source(grid, r, hsd_ids) when the sort puts the core nodes in order s
TrackSourceResult(g, rr, hsd, s) ==
  LET n == Cardinality(g.core_nodes) IN
  Run(Begin(g, s), g, rr, hsd, (n + 1) * (n + 3))

\* ------------------------------------------------------------- actions
Convert ==
  /\ frame.pc = "idle"
  /\ decoded.status = "none"
  /\ aggregate.status = "none"
  /\ \E g \in Rasters : \E flow_dir_arc \in [g.core_nodes -> FlowCodes] :
       decoded' = convert_arc_flow_directions_to_landlab_node_ids(g, flow_dir_arc)
  /\ UNCHANGED <<grid, r, hsd_ids, frame, aggregate>>

\* the aggregation called on track_source's result
FindUnique ==
  /\ frame.pc = "returned"
  /\ aggregate.status = "none"
  /\ \E ko \in KeyOrders(frame.hsd_upstr, DOMAIN frame.hsd_upstr) :
       aggregate' = find_unique_upstream_hsd_ids_and_fractions(frame.hsd_upstr, ko)
  /\ UNCHANGED <<grid, r, hsd_ids, frame, decoded>>

\* the aggregation called on a dictionary of the caller's
FindUniqueDirect ==
  /\ frame.pc = "idle"
  /\ decoded.status = "none"
  /\ aggregate.status = "none"
  /\ \E h \in DirectUpstr : \E ko \in KeyOrders(h, DOMAIN h) :
       aggregate' = find_unique_upstream_hsd_ids_and_fractions(h, ko)
  /\ UNCHANGED <<grid, r, hsd_ids, frame, decoded>>

TrackSource ==
  /\ frame.pc = "idle"
  /\ decoded.status = "none"
  /\ aggregate.status = "none"
  /\ \E inp \in Inputs :
       /\ grid' = inp.grid
       /\ r' = inp.r
       /\ hsd_ids' = inp.hsd_ids
       /\ \E s \in SorZ(inp.grid) : frame' = Begin(inp.grid, s)
  /\ UNCHANGED <<decoded, aggregate>>

LoopSkip ==
  /\ frame.pc = "loop"
  /\ frame.idx <= Len(frame.sor_z)
  /\ Visited(frame, frame.sor_z[frame.idx])
  /\ frame' = Check1(frame)
  /\ UNCHANGED <<grid, r, hsd_ids, decoded, aggregate>>

LoopSink ==
  /\ frame.pc = "loop"
  /\ frame.idx <= Len(frame.sor_z)
  /\ ~Visited(frame, frame.sor_z[frame.idx])
  /\ IsSink(r, frame.sor_z[frame.idx])
  /\ frame' = Check2(frame, hsd_ids)
  /\ UNCHANGED <<grid, r, hsd_ids, decoded, aggregate>>

LoopSegment ==
  /\ frame.pc = "loop"
  /\ frame.idx <= Len(frame.sor_z)
  /\ ~Visited(frame, frame.sor_z[frame.idx])
  /\ ~IsSink(r, frame.sor_z[frame.idx])
  /\ frame' = Check3(frame)
  /\ UNCHANGED <<grid, r, hsd_ids, decoded, aggregate>>

Walk ==
  /\ frame.pc = "walk"
  /\ frame.steps < MaxWalk
  /\ frame' = WalkIter(frame, grid, r, hsd_ids)
  /\ UNCHANGED <<grid, r, hsd_ids, decoded, aggregate>>

LoopReturn ==
  /\ frame.pc = "loop"
  /\ frame.idx > Len(frame.sor_z)
  /\ frame' = Return(frame)
  /\ UNCHANGED <<grid, r, hsd_ids, decoded, aggregate>>

Init ==
  /\ grid = NoGrid
  /\ r = <<>>
  /\ hsd_ids = <<>>
  /\ frame = Idle
  /\ decoded = NotDecoded
  /\ aggregate = NotAggregated

Next ==
  \/ Convert
  \/ FindUnique
  \/ FindUniqueDirect
  \/ TrackSource
  \/ LoopSkip
  \/ LoopSink
  \/ LoopSegment
  \/ Walk
  \/ LoopReturn

Spec == Init /\ [][Next]_vars

\* the decoder called on its own
DecoderSpec == Init /\ [][Convert]_vars

\* a statement of the running track_source call
TrackSourceStep == LoopSkip \/ LoopSink \/ LoopSegment \/ Walk \/ LoopReturn

\* track_source is sequential code with nothing to wait for: while the call
\* has a next statement, that statement runs
FairSpec == Spec /\ WF_vars(TrackSourceStep)

\* ------------------------------------------------------------- what the result should be
\* m's receiver chain m, r[m], r[r[m]], ... reaches n within k hops while
\* staying on core nodes (it stops at a sink)
RECURSIVE ChainReaches(_, _, _, _, _)
ChainReaches(g, rr, m, n, k) ==
  \/ m = n
  \/ /\ k > 0
     /\ rr[m] # m
     /\ rr[m] \in g.core_nodes
     /\ ChainReaches(g, rr, rr[m], n, k - 1)

\* the core nodes that drain through n, n included
Upstream(g, rr, n) ==
  {m \in g.core_nodes : ChainReaches(g, rr, m, n, Cardinality(g.core_nodes))}

\* m's receiver chain reaches a sink or a non-core node within k hops
RECURSIVE ChainExits(_, _, _, _)
ChainExits(g, rr, m, k) ==
  \/ rr[m] = m
  \/ rr[m] \notin g.core_nodes
  \/ k > 0 /\ ChainExits(g, rr, rr[m], k - 1)

\* no cycle among core nodes
Acyclic(g, rr) ==
  \A m \in g.core_nodes : ChainExits(g, rr, m, Cardinality(g.core_nodes))

\* occurrences of h in the sequence s
Occurrences(s, h) == Cardinality({k \in DOMAIN s : s[k] = h})

\* the sequences s and t hold the same entries the same number of times
SameMultiset(s, t) ==
  /\ Len(s) = Len(t)
  /\ \A h \in Range(s) \cup Range(t) : Occurrences(s, h) = Occurrences(t, h)

Returned == frame.pc = "returned"

IsScenario == grid = ScenarioGrid /\ r = ScenarioR /\ hsd_ids = ScenarioHsd

\* C1: when track_source returns on an acyclic receiver map, flow_accum[n] is
\* the number of core nodes whose receiver chain reaches n on core nodes, and
\* hsd_upstr[n] holds, as a multiset, the HSD ids of exactly those nodes; in
\* the worked scenario the result is exactly hsd_upstr = {1:[A], 2:[B],
\* 3:[A,C,B], 4:[A,C,D,B]} and flow_accum = {1:1, 2:1, 3:3, 4:4}.
C1_UpstreamCountAndMultiset ==
  Returned /\ Acyclic(grid, r) =>
    /\ \A n \in grid.core_nodes :
         /\ n \in DOMAIN frame.hsd_upstr
         /\ frame.flow_accum[n] = Cardinality(Upstream(grid, r, n))
         /\ Len(frame.hsd_upstr[n]) = Cardinality(Upstream(grid, r, n))
         /\ \A h \in {hsd_ids[m] : m \in grid.core_nodes} :
              Occurrences(frame.hsd_upstr[n], h) =
                Cardinality({m \in Upstream(grid, r, n) : hsd_ids[m] = h})
    /\ IsScenario =>
         /\ frame.sor_z = <<1, 2, 3, 4>>
         /\ frame.hsd_upstr =
              [n \in 1..4 |-> <<(<<1>>), (<<2>>), (<<1, 3, 2>>), (<<1, 3, 4, 2>>)>>[n]]
         /\ frame.flow_accum = [n \in 0..4 |-> IF n = 0 THEN 0 ELSE <<1, 1, 3, 4>>[n]]

\* the worked scenario has returned, with the confluence at node 3 resolved
C1_Witness ==
  /\ Returned
  /\ IsScenario
  /\ frame.flow_accum[3] = 3
  /\ frame.hsd_upstr[4] = <<1, 3, 4, 2>>

\* C2: when track_source completes, every core node has an hsd_upstr entry
\* and flow_accum[n] = len(hsd_upstr[n]) for every node with an entry.
C2_AccumEqualsLength ==
  Returned =>
    /\ grid.core_nodes \subseteq DOMAIN frame.hsd_upstr
    /\ \A n \in DOMAIN frame.hsd_upstr :
         frame.flow_accum[n] = Len(frame.hsd_upstr[n])

\* a returned run in which a node was reached by a later segment, so that
\* both its count and its list were added to after they were created
C2_Witness ==
  /\ Returned
  /\ \E n \in DOMAIN frame.hsd_upstr :
       /\ Len(frame.hsd_upstr[n]) >= 3
       /\ frame.hsd_upstr[n][1] # hsd_ids[n]
       /\ frame.sor_z[1] # n

\* C3 as stated: every sink has flow_accum 1 and hsd_upstr [hsd_ids[n]], also
\* when other core nodes drain into it.
C3_SinkCountsOnlyItself ==
  Returned =>
    \A n \in grid.core_nodes :
      r[n] = n =>
        frame.flow_accum[n] = 1 /\ frame.hsd_upstr[n] = <<hsd_ids[n]>>

\* C3, amended: a sink that is the receiver of no other core node has
\* flow_accum 1 and hsd_upstr [hsd_ids[n]].
C3_IsolatedSinkCountsOnlyItself ==
  Returned =>
    \A n \in grid.core_nodes :
      r[n] = n /\ (\A m \in grid.core_nodes : m # n => r[m] # n) =>
        frame.flow_accum[n] = 1 /\ frame.hsd_upstr[n] = <<hsd_ids[n]>>

\* a returned run with an isolated sink beside a sink that has donors
C3_Witness ==
  /\ Returned
  /\ \E n, k \in grid.core_nodes :
       /\ r[n] = n /\ (\A m \in grid.core_nodes : m # n => r[m] # n)
       /\ r[k] = k /\ (\E m \in grid.core_nodes : m # k /\ r[m] = k)
       /\ frame.flow_accum[n] = 1
       /\ frame.flow_accum[k] > 1

\* C4 as stated: on a receiver map with a cycle among core nodes the segment
\* walk stops within a bounded number of steps (the number of core nodes)
\* and track_source ends in a CyclicFlowGraph error.
C4_CyclicWalkStops ==
  frame.pc = "walk" /\ ~Acyclic(grid, r) =>
    frame.steps <= Cardinality(grid.core_nodes)

\* C5: two processing orders that differ only in the order of
\* equal-elevation nodes give, on an acyclic receiver map, the same
\* flow_accum and hsd_upstr lists that are equal as multisets.
C5_TieOrderInvariant ==
  Returned /\ Acyclic(grid, r) =>
    \A s \in SorZ(grid) :
      LET other == TrackSourceResult(grid, r, hsd_ids, s) IN
      /\ other.pc = "returned"
      /\ other.flow_accum = frame.flow_accum
      /\ DOMAIN other.hsd_upstr = DOMAIN frame.hsd_upstr
      /\ \A n \in DOMAIN frame.hsd_upstr :
           SameMultiset(other.hsd_upstr[n], frame.hsd_upstr[n])

\* a returned run for which another order of the tied nodes yields a list
\* with the same entries in a different order
C5_Witness ==
  /\ Returned
  /\ Acyclic(grid, r)
  /\ \E s \in SorZ(grid) :
       /\ s # frame.sor_z
       /\ \E n \in DOMAIN frame.hsd_upstr :
            /\ TrackSourceResult(grid, r, hsd_ids, s).hsd_upstr[n] # frame.hsd_upstr[n]
            /\ SameMultiset(TrackSourceResult(grid, r, hsd_ids, s).hsd_upstr[n],
                            frame.hsd_upstr[n])

\* C10: on a receiver map with no cycle among core nodes every segment walk
\* ends at the first node j with r[j] = j or as soon as it steps onto a
\* non-core node, after at most as many node updates as there are core
\* nodes; non-core nodes keep flow_accum 0 and get no hsd_upstr entry; and
\* track_source eventually returns.
C10_WalkEndsAndReturns ==
  /\ [](Acyclic(grid, r) => frame.steps <= Cardinality(grid.core_nodes))
  /\ [](\A n \in Nodes(grid) \ grid.core_nodes :
          frame.flow_accum[n] = 0 /\ n \notin DOMAIN frame.hsd_upstr)
  /\ [][/\ (frame.pc = "walk" /\ frame'.pc = "loop" =>
              frame'.j \notin grid.core_nodes \/ r[frame'.j] = frame'.j)
        /\ (frame.pc = "walk" /\ frame'.pc = "walk" =>
              frame'.j \in grid.core_nodes /\ r[frame'.j] # frame'.j)]_vars
  /\ (frame.pc \in {"loop", "walk"} /\ Acyclic(grid, r)) ~> Returned

\* a walk has just stepped off the core nodes after updating more than one
\* node, on a map that also has a sink
C10_Witness ==
  /\ frame.pc = "loop"
  /\ frame.j \in Nodes(grid) \ grid.core_nodes
  /\ frame.steps >= 2
  /\ Acyclic(grid, r)
  /\ \E n \in grid.core_nodes : r[n] = n

\* the flow-direction codes the decoder is specified for
ValidCodes == {1, 2, 4, 8, 16, 32, 64, 128}

Converted == decoded.status # "none"

\* C6 as stated: the decoder ends in an error whenever the code of some core
\* node is not one of {1,2,4,8,16,32,64,128}; it never returns receivers.
C6_InvalidCodeRaises ==
  Converted /\ (\E n \in decoded.grid.core_nodes :
                  decoded.flow_dir_arc[n] \notin ValidCodes)
    => decoded.status # "ok"

\* the neighbours of n clockwise from east: [E, SE, S, SW, W, NW, N, NE]
ClockwiseFromEast(g, n) ==
  LET orth == g.neighbors_at_node[n]
      diag == g.diagonals_at_node[n]
  IN <<orth[1], diag[4], orth[4], diag[3], orth[3], diag[2], orth[2], diag[1]>>

\* C7: with orthogonal neighbours stored (E, N, W, S) and diagonal ones
\* (NE, NW, SW, SE), the decoder gives a core node whose code is 2^k, k in
\* 0..7, the neighbour at position k of [E, SE, S, SW, W, NW, N, NE], and
\* gives every non-core node receiver 0.
C7_DecodesClockwiseFromEast ==
  /\ Converted /\ (\A n \in decoded.grid.core_nodes :
                     decoded.flow_dir_arc[n] \in ValidCodes)
       => decoded.status = "ok"
  /\ decoded.status = "ok" =>
       /\ \A n \in decoded.grid.core_nodes : \A k \in 0..7 :
            decoded.flow_dir_arc[n] = 2 ^ k =>
              decoded.r[n] = ClockwiseFromEast(decoded.grid, n)[k + 1]
       /\ \A n \in Nodes(decoded.grid) \ decoded.grid.core_nodes :
            decoded.r[n] = 0

\* a grid with two core nodes decoded, one flowing south-west and one north
C7_Witness ==
  /\ decoded.status = "ok"
  /\ \E n, m \in decoded.grid.core_nodes :
       /\ n # m
       /\ decoded.flow_dir_arc[n] = 8
       /\ decoded.r[n] = decoded.grid.diagonals_at_node[n][3]
       /\ decoded.flow_dir_arc[m] = 64
       /\ decoded.r[m] = decoded.grid.neighbors_at_node[m][2]

\* the distinct entries of l in the order in which they first occur
RECURSIVE FirstEncountered(_)
FirstEncountered(l) ==
  IF l = <<>> THEN <<>>
  ELSE LET before == FirstEncountered(SubSeq(l, 1, Len(l) - 1)) IN
       IF l[Len(l)] \in Range(before) THEN before ELSE Append(before, l[Len(l)])

\* the numerators of a list of fractions, added up
RECURSIVE TotalCount(_)
TotalCount(c) == IF c = <<>> THEN 0 ELSE c[1][1] + TotalCount(Tail(c))

\* for node ke: the unique ids are the distinct entries of its list, each
\* once, and the fractions are aligned with them, each (occurrences)/(length)
AggregatesNode(ke) ==
  LET l == aggregate.hsd_upstr[ke]
      u == aggregate.uniq_ids[ke]
      c == aggregate.coeff[ke]
  IN /\ Range(u) = Range(l)
     /\ Len(u) = Cardinality(Range(l))
     /\ DOMAIN c = DOMAIN u
     /\ \A p \in DOMAIN u : c[p] = <<Occurrences(l, u[p]), Len(l)>>
     /\ TotalCount(c) = Len(l)
     /\ frame.pc = "returned" => Len(l) = frame.flow_accum[ke]

\* C8 as stated: for every node with a non-empty list the unique ids are
\* its distinct entries in first-encountered order, with aligned fractions
\* (occurrences)/(length) whose numerators sum to the length.
C8_FirstEncounteredOrder ==
  aggregate.status = "ok" =>
    \A ke \in DOMAIN aggregate.hsd_upstr :
      aggregate.hsd_upstr[ke] # <<>> =>
        /\ AggregatesNode(ke)
        /\ aggregate.uniq_ids[ke] = FirstEncountered(aggregate.hsd_upstr[ke])

\* C8, amended: for every node with a non-empty list the unique ids are its
\* distinct entries, each once, in the order the Counter iterates its keys,
\* with aligned fractions (occurrences)/(length) whose numerators sum to
\* the length; on track_source's output the length is flow_accum[n].
C8_UniqueIdsAndFractions ==
  aggregate.status = "ok" =>
    \A ke \in DOMAIN aggregate.hsd_upstr :
      aggregate.hsd_upstr[ke] # <<>> => AggregatesNode(ke)

\* track_source's output aggregated: a node with two distinct ids, one of
\* them twice
C8_Witness ==
  /\ aggregate.status = "ok"
  /\ frame.pc = "returned"
  /\ \E ke \in DOMAIN aggregate.hsd_upstr :
       /\ Len(aggregate.uniq_ids[ke]) = 2
       /\ \E p \in DOMAIN aggregate.coeff[ke] : aggregate.coeff[ke][p] = <<2, 3>>

\* C9 as stated: the aggregation ends in a DegenerateNode error when some
\* node has an empty list; it returns no result for that node.
C9_EmptyListRaises ==
  aggregate.status # "none" /\ (\E ke \in DOMAIN aggregate.hsd_upstr :
                                  aggregate.hsd_upstr[ke] = <<>>)
    => aggregate.status = "DegenerateNode"

\* the walk of the running segment updates a node in this step (frame'.j)
WalkUpdatesNode == frame.pc = "walk" /\ frame'.steps = frame.steps + 1

\* the running walk has already updated a node that was visited before this
\* segment: it made more node updates than it found new nodes
ReachedVisitedNode == frame.pc = "walk" /\ frame.steps > frame.a

\* C11: within one segment walk on an acyclic receiver map, once the walk
\* has reached a node visited before this segment, every later node of the
\* walk is already visited too; at an already visited node the counter a and
\* the segment buffer keep their value, exactly a is added to flow_accum and
\* exactly the buffer is appended to hsd_upstr; and the walk's test
\* flow_accum[j] == 0 agrees at every step with j not being in alr_counted.
C11_FrozenAfterConfluence ==
  /\ [][Acyclic(grid, r) /\ WalkUpdatesNode =>
          /\ ReachedVisitedNode => frame.flow_accum[frame'.j] # 0
          /\ frame.flow_accum[frame'.j] # 0 =>
               /\ frame'.a = frame.a
               /\ frame'.stream_buffer = frame.stream_buffer
               /\ frame'.alr_counted = frame.alr_counted
               /\ frame'.flow_accum[frame'.j] =
                    frame.flow_accum[frame'.j] + frame.a
               /\ frame'.hsd_upstr[frame'.j] =
                    frame.hsd_upstr[frame'.j] \o frame.stream_buffer
          /\ frame.flow_accum[frame'.j] = 0 <=>
               frame'.j \notin {frame.alr_counted[k] : k \in DOMAIN frame.alr_counted}]_vars
  /\ [](Acyclic(grid, r) /\ frame.pc \in {"loop", "walk"} =>
          \A n \in grid.core_nodes :
            frame.flow_accum[n] = 0 <=>
              n \notin {frame.alr_counted[k] : k \in DOMAIN frame.alr_counted})

\* a walk on an acyclic map that found a new node and then updated two
\* nodes visited by an earlier segment, with a and the buffer unchanged
C11_Witness ==
  /\ frame.pc \in {"walk", "loop"}
  /\ Acyclic(grid, r)
  /\ frame.a >= 1
  /\ frame.steps >= frame.a + 2
  /\ Len(frame.stream_buffer) = frame.a

====
